---- MODULE Spec2Model ----
\* Model of the upstream relay actor (relay-server/src/actors/upstream.rs):
\* the Authenticate handshake with its retry backoff, the SendQuery and
\* SendRequest handlers, the classification of upstream responses and the
\* scoping of upstream rate limits.
EXTENDS Integers, Sequences, FiniteSets, TLC

VARIABLES
    config,        \* UpstreamRelay.config (immutable after construction)
    started,       \* whether Actor::started has run
    auth_state,    \* UpstreamRelay.auth_state
    backoff,       \* UpstreamRelay.backoff
    mailbox,       \* Authenticate messages delivered to the actor, not yet handled
    timers,        \* intervals of the Authenticate messages scheduled by notify_later
    inflight,      \* the futures of the Authenticate handlers that have not resolved
    calls,         \* SendQuery / SendRequest messages handled so far, with their outcome
    nattempts,     \* number of handshake attempts begun
    nfailed,       \* number of handshake attempts that ended in map_err
    lastErr,       \* the error (and response status) the last failed attempt ended with
    backoffCalls,  \* number of calls of backoff.next_backoff()
    wire,          \* paths of the requests the latest handshake attempt has sent, in order
    decoded,       \* whether the challenge of the latest handshake attempt was decoded
    stage,         \* position of the response under classification
    resp,          \* the upstream response under classification
    scoping,       \* the Scoping the caller scopes rate limits with
    outcome,       \* what handle_response returned for resp
    scoped,        \* what UpstreamRateLimits::scope returned
    returned,      \* the calls made on one RetryBackoff: next_backoff() with the
                   \* interval it returned, and reset()
    vstage,        \* position of the annotated value under conversion
    vtype,         \* the type the annotated value is converted to
    vinput,        \* the Annotated<Value> given to from_value
    vresult,       \* what from_value returned
    vskip,         \* what skip_serialization returned for the converted value
    vnever,        \* whether the record field holding the value is tagged never
    vemitted,      \* whether the record's serializer emitted the field
    vchildren      \* what extract_child_meta returned for the converted value

vars == <<config, started, auth_state, backoff, mailbox, timers, inflight, calls,
          nattempts, nfailed, lastErr, backoffCalls, wire, decoded,
          stage, resp, scoping, outcome, scoped, returned,
          vstage, vtype, vinput, vresult, vskip, vnever, vemitted, vchildren>>

actorVars == <<config, started, auth_state, backoff, mailbox, timers, inflight, calls,
               nattempts, nfailed, lastErr, backoffCalls, wire, decoded>>

respVars == <<stage, resp, scoping, outcome, scoped>>

valueVars == <<vstage, vtype, vinput, vresult, vskip, vnever, vemitted, vchildren>>

pureVars == <<returned, valueVars>>

----
\* Bounds of the model.

\* handshake attempts begun by one actor
MaxAttempts == 3
\* SendQuery / SendRequest messages sent to one actor
MaxCalls == 1
\* characters of a Retry-After header value
MaxHdrLen == 2
\* X-Sentry-Rate-Limits header lines of one response
MaxHdrValues == 2
\* calls of next_backoff() and reset() on one RetryBackoff
MaxBackoffCalls == 5
\* elements of an array or object given to from_value
MaxItems == 2
\* width of u64 and i64 in bits
IntBits == 8

----
\* Option values: None is the empty sequence, Some(v) the one-element sequence.

None == <<>>

Some(v) == <<v>>

Min(a, b) == IF a < b THEN a ELSE b

RemoveAt(s, i) == SubSeq(s, 1, i - 1) \o SubSeq(s, i + 1, Len(s))

\* Sequences over S of length 0..n.
SeqsUpTo(S, n) == UNION {[1..k -> S] : k \in 0..n}

----
\* HTTP statuses the upstream answers with, and the StatusCode predicates.

Statuses == {200, 299, 300, 400, 403, 429, 499, 500}

TOO_MANY_REQUESTS == 429

IsSuccess(status) == status >= 200 /\ status < 300

IsClientError(status) == status >= 400 /\ status < 500

----
\* Response bodies: one that is no JSON, the JSON of an error document with a
\* detail, and the JSON of the payload the query expects.

Bodies == {"garbage", "error", "payload"}

\* A body longer than the limit of json().
Oversized == "oversized"

\* The bodies of the responses that are classified.
ResponseBodies == Bodies \cup {Oversized}

\* response.json(): the future reads the payload stream up to its limit; it
\* has read the whole body when it resolves, unless the body is longer than
\* the limit, where it resolves with an error and leaves the rest unread.
JsonConsumed(body) == body # Oversized

\* response.json() into ApiErrorResponse: Err for a body that is no JSON or is
\* longer than the limit, otherwise the document (a payload document carries
\* no detail).
JsonApiError(body) ==
    IF body \in {"garbage", Oversized} THEN [ok |-> FALSE, value |-> [detail |-> None]]
    ELSE [ok |-> TRUE,
          value |-> [detail |-> IF body = "error" THEN Some("detail") ELSE None]]

\* ApiErrorResponse::default()
ApiErrorDefault == [detail |-> None]

\* json_result.unwrap_or_default()
UnwrapOrDefault(json_result) ==
    IF json_result.ok THEN json_result.value ELSE ApiErrorDefault

\* r.json() into the query's response type: only the payload document decodes.
JsonTyped(body) == body = "payload"

----
\* Header values.  A header line either converts to a string (to_str) or not.
\* Retry-After text is a sequence of characters; X-Sentry-Rate-Limits text is
\* the sequence of its comma-separated quotas.

Chars == {"0", "1", "x"}

DigitVal(c) == IF c = "1" THEN 1 ELSE 0

IsDigit(c) == c \in {"0", "1"}

RetryAfterLines ==
    {None} \cup {Some([ascii |-> a, text |-> t]) :
                    a \in BOOLEAN, t \in SeqsUpTo(Chars, MaxHdrLen)}

\* A quota of the X-Sentry-Rate-Limits header, well-formed or not.
Junk ==
    [ok |-> FALSE, retry_after |-> 0, categories |-> {}, scope |-> "key", reason_code |-> None]

QuotaKey ==
    [ok |-> TRUE, retry_after |-> 60, categories |-> {"transaction"}, scope |-> "key",
     reason_code |-> Some("reason")]

QuotaOrg ==
    [ok |-> TRUE, retry_after |-> 5, categories |-> {}, scope |-> "organization",
     reason_code |-> None]

RateLimitLines ==
    {[ascii |-> FALSE, text |-> <<QuotaKey>>],
     [ascii |-> TRUE, text |-> <<>>],
     [ascii |-> TRUE, text |-> <<Junk>>],
     [ascii |-> TRUE, text |-> <<QuotaKey>>],
     [ascii |-> TRUE, text |-> <<Junk, QuotaOrg>>]}

\* v.to_str().ok()
ToStr(line) == IF line.ascii THEN Some(line.text) ELSE None

RECURSIVE ParseDigits(_, _)
ParseDigits(text, acc) ==
    IF text = <<>> THEN acc
    ELSE ParseDigits(Tail(text), 10 * acc + DigitVal(Head(text)))

\* s.parse::<RetryAfter>().ok(): whole seconds, or nothing.
ParseRetryAfter(text) ==
    IF text # <<>> /\ \A i \in 1..Len(text) : IsDigit(text[i])
    THEN Some(ParseDigits(text, 0))
    ELSE None

\* headers.get_all(RATE_LIMITS_HEADER).iter().filter_map(|v| v.to_str().ok()).join(", ")
RECURSIVE JoinLines(_)
JoinLines(lines) ==
    IF lines = <<>> THEN <<>>
    ELSE (IF ToStr(Head(lines)) = None THEN <<>> ELSE ToStr(Head(lines))[1])
         \o JoinLines(Tail(lines))

----
\* Annotated values (general/src/types).  A Value is a record with its tag and
\* the payload of that tag; an Annotated is a value that may be absent and its
\* Meta; the entry of an object is an Annotated with its key.

MkValue(tag) == [tag |-> tag, b |-> FALSE, n |-> 0, f |-> 0, s |-> "", items |-> <<>>]

VNull == MkValue("Null")

VBool(x) == [MkValue("Bool") EXCEPT !.b = x]

VU64(x) == [MkValue("U64") EXCEPT !.n = x]

VI64(x) == [MkValue("I64") EXCEPT !.n = x]

\* An f64 of x whole seconds and micros millionths of a second.
VF64(x, micros) == [MkValue("F64") EXCEPT !.n = x, !.f = micros]

VString(x) == [MkValue("String") EXCEPT !.s = x]

VArray(items) == [MkValue("Array") EXCEPT !.items = items]

VObject(items) == [MkValue("Object") EXCEPT !.items = items]

\* A DateTime<Utc>: seconds and microseconds since the epoch.
VDateTime(secs, micros) == [MkValue("DateTime") EXCEPT !.n = secs, !.f = micros]

VTuple(items) == [MkValue("Tuple") EXCEPT !.items = items]

\* Meta with its error entries, oldest first.
EmptyMeta == [errors |-> <<>>]

\* Meta::add_error
AddError(meta, message, original_value) ==
    [meta EXCEPT !.errors = Append(@, [message |-> message,
                                       original_value |-> original_value])]

\* Meta::add_unexpected_value_error
AddUnexpectedValueError(meta, expectation, value) ==
    AddError(meta, <<"expected", expectation>>, Some(value))

Annotated(value, meta) == [key |-> "", value |-> value, meta |-> meta]

WithKey(k, a) == [a EXCEPT !.key = k]

\* The types with a FromValue implementation in impls.rs.
MkType(kind, arity, elem) == [kind |-> kind, arity |-> arity, elem |-> elem]

TValue == MkType("Value", 0, <<>>)

TDateTime == MkType("DateTime", 0, <<>>)

TArray(t) == MkType("Array", 0, <<t>>)

TObject(t) == MkType("Object", 0, <<t>>)

TBox(t) == MkType("Box", 0, <<t>>)

\* The tuple of n components Annotated<t>.
TTuple(n, t) == MkType("Tuple", n, <<t>>)

\* The arities tuple_meta_structure! is instantiated for.
TupleArities == 1..12

\* u64 as i64
AsI64(x) == IF x >= 2 ^ (IntBits - 1) THEN x - 2 ^ IntBits ELSE x

I64Max == 2 ^ (IntBits - 1) - 1

U64Max == 2 ^ IntBits - 1

\* The seconds chrono has a date for: a range well inside i64.
MaxTimestamp == 2 ^ (IntBits - 2)

MinTimestamp == 0 - 2 ^ (IntBits - 2)

\* Utc.timestamp_opt(secs, nanos): the single DateTime, or nothing.
TimestampOpt(secs, micros) ==
    IF secs >= MinTimestamp /\ secs <= MaxTimestamp /\ micros >= 0 /\ micros < 1000000
    THEN Some(VDateTime(secs, micros))
    ELSE None

\* value.parse::<NaiveDateTime>()
ParseNaiveDateTime(str) ==
    IF str = "1970-01-01T00:00:00" THEN Some(VDateTime(0, 0)) ELSE None

\* value.parse::<DateTime<Utc>>()
ParseDateTimeUtc(str) ==
    IF str = "1970-01-01T00:00:01Z" THEN Some(VDateTime(1, 0)) ELSE None

\* err.to_string() of the chrono ParseError
ParseErrorMessage == <<"input", "contains", "invalid", "characters">>

\* What from_value comes to: it returns an Annotated, or it panics.
Returns(a) == [panic |-> FALSE, ann |-> a]

Panics == [panic |-> TRUE, ann |-> Annotated(None, EmptyMeta)]

\* Option::unwrap on the result of timestamp_opt
UnwrapInto(opt, meta) ==
    IF opt = None THEN Panics ELSE Returns(Annotated(Some(opt[1]), meta))

\* FromValue for DateTime<Utc>
FromValueDateTime(a) ==
    IF a.value = None THEN Returns(Annotated(None, a.meta))
    ELSE LET v == a.value[1]
         IN CASE v.tag = "String" ->
                    LET naive == ParseNaiveDateTime(v.s)
                        parsed == IF naive # None THEN naive ELSE ParseDateTimeUtc(v.s)
                    IN IF parsed # None
                       THEN Returns(Annotated(parsed, a.meta))
                       ELSE Returns(Annotated(None,
                                AddError(a.meta, ParseErrorMessage, Some(VString(v.s)))))
              [] v.tag = "U64" -> UnwrapInto(TimestampOpt(AsI64(v.n), 0), a.meta)
              [] v.tag = "I64" -> UnwrapInto(TimestampOpt(v.n, 0), a.meta)
              [] v.tag = "F64" -> UnwrapInto(TimestampOpt(v.n, IF v.f < 0 THEN 0 ELSE v.f), a.meta)
              [] v.tag = "Null" -> Returns(Annotated(None, a.meta))
              [] OTHER -> Returns(Annotated(None,
                                AddUnexpectedValueError(a.meta, "timestamp", v)))

\* The items of the array or object an Annotated<Value> holds, if it holds one.
ItemsOf(a) == IF a.value = None THEN <<>> ELSE a.value[1].items

\* collect() of the converted items: the container of the Annotated they
\* returned, under the keys of the source; a panic of one conversion is the
\* panic of the whole.
Collect(tag, source, converted, meta) ==
    IF \E i \in 1..Len(converted) : converted[i].panic
    THEN Panics
    ELSE Returns(Annotated(
            Some([MkValue(tag) EXCEPT
                    !.items = [i \in 1..Len(converted) |->
                                  WithKey(source[i].key, converted[i].ann)]]),
            meta))

\* FromValue for Array<T>; converted are the items through FromValue for T
FromValueArraySilent(a, converted) ==
    IF a.value = None THEN Returns(Annotated(None, a.meta))
    ELSE LET v == a.value[1]
         IN CASE v.tag = "Array" -> Collect("Array", v.items, converted, a.meta)
              [] OTHER -> Returns(Annotated(None, a.meta))

FromValueArray(a, converted) ==
    IF a.value = None THEN Returns(Annotated(None, a.meta))
    ELSE LET v == a.value[1]
         IN CASE v.tag = "Array" -> Collect("Array", v.items, converted, a.meta)
              [] v.tag = "Null" -> Returns(Annotated(None, a.meta))
              [] OTHER -> Returns(Annotated(None,
                                AddUnexpectedValueError(a.meta, "array", v)))

\* FromValue for Object<T>; converted are the values through FromValue for T
FromValueObject(a, converted) ==
    IF a.value = None THEN Returns(Annotated(None, a.meta))
    ELSE LET v == a.value[1]
         IN CASE v.tag = "Object" -> Collect("Object", v.items, converted, a.meta)
              [] v.tag = "Null" -> Returns(Annotated(None, a.meta))
              [] OTHER -> Returns(Annotated(None,
                                AddUnexpectedValueError(a.meta, "object", v)))

\* FromValue for Box<T>; inner is the value through FromValue for T
FromValueBox(inner) == inner

\* FromValue for the tuple of n components (tuple_meta_structure!); converted
\* are the items through the FromValue of the components
FromValueTupleAnyLength(n, a, converted) ==
    IF a.value = None THEN Returns(Annotated(None, a.meta))
    ELSE LET v == a.value[1]
         IN CASE v.tag = "Array" -> Collect("Tuple", v.items, converted, a.meta)
              [] OTHER -> Returns(Annotated(None,
                                AddUnexpectedValueError(a.meta, "tuple", v)))

FromValueTuple(n, a, converted) ==
    IF a.value = None THEN Returns(Annotated(None, a.meta))
    ELSE LET v == a.value[1]
         IN CASE v.tag = "Array" ->
                    IF Len(v.items) # n
                    THEN Returns(Annotated(None,
                                AddUnexpectedValueError(a.meta, "tuple", VArray(v.items))))
                    ELSE Collect("Tuple", v.items, converted, a.meta)
              [] OTHER -> Returns(Annotated(None,
                                AddUnexpectedValueError(a.meta, "tuple", v)))

\* FromValue::from_value of type t
RECURSIVE FromValue(_, _)
FromValue(t, a) ==
    LET converted == [i \in 1..Len(ItemsOf(a)) |-> FromValue(t.elem[1], ItemsOf(a)[i])]
    IN CASE t.kind = "Value" -> Returns(a)
         [] t.kind = "DateTime" -> FromValueDateTime(a)
         [] t.kind = "Array" -> FromValueArray(a, converted)
         [] t.kind = "Object" -> FromValueObject(a, converted)
         [] t.kind = "Box" -> FromValueBox(FromValue(t.elem[1], a))
         [] t.kind = "Tuple" -> FromValueTuple(t.arity, a, converted)

\* ToValue::skip_serialization of Array<T> and of Object<T>; skips are the
\* skip_serialization() of the children
SkipSerializationIfAny(skips) == \E i \in 1..Len(skips) : skips[i]

SkipSerializationContainer(skips) == \A i \in 1..Len(skips) : skips[i]

\* ToValue::skip_serialization, the default of the trait
SkipSerializationDefault == FALSE

\* ToValue::skip_serialization of a value of type t, and
\* Annotated::skip_serialization of an Annotated of that type
RECURSIVE SkipSerialization(_, _)
AnnotatedSkipSerialization(t, a) ==
    IF a.value = None THEN TRUE ELSE SkipSerialization(t, a.value[1])

SkipSerialization(t, v) ==
    IF t.kind \in {"Array", "Object"}
    THEN SkipSerializationContainer(
            [i \in 1..Len(v.items) |-> AnnotatedSkipSerialization(t.elem[1], v.items[i])])
    ELSE SkipSerializationDefault

\* The serializer derived for a record: a field is left out when its value is
\* to be skipped, unless its type is tagged skip_serialization = "never".
FieldEmitted(never, t, a) == never \/ ~AnnotatedSkipSerialization(t, a)

\* Meta::is_empty
MetaIsEmpty(meta) == meta.errors = <<>>

\* MetaTree::is_empty; a MetaMap is the set of its entries (key, tree)
RECURSIVE TreeIsEmpty(_)
TreeIsEmpty(tree) ==
    MetaIsEmpty(tree.meta) /\ \A c \in tree.children : TreeIsEmpty(c.tree)

\* The decimal strings of the indices 0, 1, 2, ...
DecimalStrings == <<"0", "1", "2", "3", "4", "5", "6", "7", "8", "9", "10", "11", "12">>

\* idx.to_string()
IdxToString(idx) == DecimalStrings[idx + 1]

\* extract_child_meta of Array<T> and of the tuples; trees are the
\* extract_meta_tree of the items, in order
ExtractChildMetaCompact(trees) ==
    LET kept == SelectSeq(trees, LAMBDA tree : ~TreeIsEmpty(tree))
    IN {[key |-> IdxToString(i - 1), tree |-> kept[i]] : i \in 1..Len(kept)}

ExtractChildMetaIndexed(trees) ==
    {[key |-> IdxToString(i - 1), tree |-> trees[i]] :
        i \in {j \in 1..Len(trees) : ~TreeIsEmpty(trees[j])}}

\* extract_child_meta of Object<T>; trees are the extract_meta_tree of the
\* values, keys their keys
ExtractChildMetaKeyed(keys, trees) ==
    {[key |-> keys[i], tree |-> trees[i]] :
        i \in {j \in 1..Len(trees) : ~TreeIsEmpty(trees[j])}}

\* ToValue::extract_child_meta, the default of the trait
ExtractChildMetaDefault == {}

\* ToValue::extract_child_meta of a value of type t, and
\* ToValue::extract_meta_tree of an Annotated of that type
RECURSIVE ExtractChildMeta(_, _)
ExtractMetaTree(t, a) ==
    [meta |-> a.meta,
     children |-> IF a.value = None THEN {} ELSE ExtractChildMeta(t, a.value[1])]

ExtractChildMeta(t, v) ==
    LET child == IF t.kind = "Value" THEN t ELSE t.elem[1]
        trees == [i \in 1..Len(v.items) |-> ExtractMetaTree(child, v.items[i])]
        keys == [i \in 1..Len(v.items) |-> v.items[i].key]
    IN CASE t.kind \in {"Array", "Tuple"} -> ExtractChildMetaIndexed(trees)
         [] t.kind = "Object" -> ExtractChildMetaKeyed(keys, trees)
         [] t.kind = "Box" -> ExtractChildMeta(t.elem[1], v)
         [] t.kind = "Value" /\ v.tag = "Object" -> ExtractChildMetaKeyed(keys, trees)
         [] t.kind = "Value" /\ v.tag = "Array" -> ExtractChildMetaIndexed(trees)
         [] t.kind = "Value" -> {}
         [] OTHER -> ExtractChildMetaDefault

----
\* The annotated values and types from_value is applied to.

OlderMeta == AddError(EmptyMeta, <<"earlier", "error">>, None)

Metas == {EmptyMeta, OlderMeta}

ElemValues ==
    {VNull, VU64(1), VString("a"), VString("1970-01-01T00:00:01Z"), VArray(<<>>),
     VArray(<<Annotated(Some(VU64(1)), EmptyMeta)>>),
     VArray(<<Annotated(Some(VU64(1)), OlderMeta)>>)}

ElemAnnotated ==
    {Annotated(None, m) : m \in Metas} \cup
    {Annotated(Some(v), m) : v \in ElemValues, m \in Metas}

ObjectKeys == <<"a", "b", "c", "d">>

Arrays == {VArray(items) : items \in SeqsUpTo(ElemAnnotated, MaxItems)}

Objects ==
    {VObject([i \in 1..Len(items) |-> WithKey(ObjectKeys[i], items[i])]) :
        items \in SeqsUpTo(ElemAnnotated, MaxItems)}

Scalars ==
    {VNull, VBool(TRUE), VU64(1), VU64(U64Max), VI64(0 - 1), VI64(I64Max), VF64(10, 500000),
     VString("a"), VString("1970-01-01T00:00:00"), VString("1970-01-01T00:00:01Z")}

Inputs ==
    {Annotated(None, m) : m \in Metas} \cup
    {Annotated(Some(v), m) : v \in Scalars \cup Arrays \cup Objects, m \in Metas}

Types ==
    {TValue, TDateTime, TBox(TDateTime), TBox(TArray(TValue)),
     TArray(TValue), TArray(TDateTime), TArray(TArray(TValue)),
     TObject(TValue), TObject(TDateTime), TObject(TArray(TValue))}
    \cup {TTuple(n, TValue) : n \in TupleArities}
    \cup {TTuple(n, TDateTime) : n \in 1..3}

----
\* Rate limits returned by the upstream (UpstreamRateLimits) and their scoping.

Scopings ==
    {[organization |-> 1, project |-> 2, key |-> 3],
     [organization |-> 7, project |-> 8, key |-> 9]}

\* UpstreamRateLimits::new
UpstreamRateLimitsNewDefault60 == [retry_after |-> 60, rate_limits |-> <<>>]

UpstreamRateLimitsNew == [retry_after |-> 0, rate_limits |-> <<>>]

\* UpstreamRateLimits::retry_after
WithRetryAfter(self, header) ==
    LET parsed == IF header = None THEN None ELSE ParseRetryAfter(header[1])
    IN IF parsed # None THEN [self EXCEPT !.retry_after = parsed[1]] ELSE self

\* UpstreamRateLimits::rate_limits
WithRateLimits(self, header) == [self EXCEPT !.rate_limits = header]

\* RateLimitScope::for_quota
ForQuota(s, quota_scope) ==
    [kind |-> quota_scope,
     id |-> IF quota_scope = "organization" THEN s.organization
            ELSE IF quota_scope = "project" THEN s.project
            ELSE s.key]

\* utils::parse_rate_limits: malformed quotas are skipped, the others become
\* rate limits in the order of the header.
RECURSIVE ParseRateLimits(_, _)
ParseRateLimits(s, text) ==
    IF text = <<>> THEN <<>>
    ELSE LET q == Head(text)
         IN (IF q.ok
             THEN <<[categories |-> q.categories,
                     scope |-> ForQuota(s, q.scope),
                     reason_code |-> q.reason_code,
                     retry_after |-> q.retry_after]>>
             ELSE <<>>)
            \o ParseRateLimits(s, Tail(text))

\* RateLimits::is_limited
IsLimited(rate_limits) == rate_limits # <<>>

\* RateLimits::add
AddLimit(rate_limits, limit) == Append(rate_limits, limit)

\* The default rate limit of UpstreamRateLimits::scope.
FallbackLimit(self, s) ==
    [categories |-> {},
     scope |-> ForQuota(s, "key"),
     reason_code |-> None,
     retry_after |-> self.retry_after]

\* UpstreamRateLimits::scope
ScopeAlwaysFallback(self, s) ==
    AddLimit(ParseRateLimits(s, self.rate_limits), FallbackLimit(self, s))

Scope(self, s) ==
    LET rate_limits == ParseRateLimits(s, self.rate_limits)
    IN IF ~IsLimited(rate_limits)
       THEN AddLimit(rate_limits, FallbackLimit(self, s))
       ELSE rate_limits

----
\* Responses and their classification (handle_response).

MkResponse(status, body, retry_after, rate_limits) ==
    [status |-> status, body |-> body, retry_after |-> retry_after,
     rate_limits |-> rate_limits]

Responses ==
    {MkResponse(st, b, ra, rl) :
        st \in Statuses, b \in ResponseBodies, ra \in RetryAfterLines,
        rl \in SeqsUpTo(RateLimitLines, MaxHdrValues)}

\* The responses the actor's own requests are answered with: the headers play
\* no part in what the actor does.
PlainResponses == {MkResponse(st, b, None, <<>>) : st \in Statuses, b \in Bodies}

NoResult == [kind |-> "None", status |-> 0, response |-> None, body |-> ApiErrorDefault,
             limits |-> UpstreamRateLimitsNew, consumed |-> FALSE]

MkResult(kind, status) == [NoResult EXCEPT !.kind = kind, !.status = status]

\* headers.get(header::RETRY_AFTER).and_then(|v| v.to_str().ok())
RetryAfterHeader(response) ==
    IF response.retry_after = None THEN None ELSE ToStr(response.retry_after[1])

\* handle_response
HandleResponseNo429(response) ==
    LET status == response.status
    IN IF IsSuccess(status) THEN [MkResult("Ok", status) EXCEPT !.response = Some(response)]
       ELSE [MkResult("ResponseError", status)
                EXCEPT !.consumed = JsonConsumed(response.body),
                       !.body = UnwrapOrDefault(JsonApiError(response.body))]

HandleResponseOnly200(response) ==
    LET status == response.status
    IN IF status = 200 THEN [MkResult("Ok", status) EXCEPT !.response = Some(response)]
       ELSE IF status = TOO_MANY_REQUESTS
       THEN [MkResult("RateLimited", status)
                EXCEPT !.consumed = JsonConsumed(response.body),
                       !.limits = WithRateLimits(
                                      WithRetryAfter(UpstreamRateLimitsNew,
                                                     RetryAfterHeader(response)),
                                      JoinLines(response.rate_limits))]
       ELSE [MkResult("ResponseError", status)
                EXCEPT !.consumed = JsonConsumed(response.body),
                       !.body = UnwrapOrDefault(JsonApiError(response.body))]

HandleResponse(response) ==
    LET status == response.status
    IN IF IsSuccess(status) THEN [MkResult("Ok", status) EXCEPT !.response = Some(response)]
       ELSE IF status = TOO_MANY_REQUESTS
       THEN [MkResult("RateLimited", status)
                EXCEPT !.consumed = JsonConsumed(response.body),
                       !.limits = WithRateLimits(
                                      WithRetryAfter(UpstreamRateLimitsNew,
                                                     RetryAfterHeader(response)),
                                      JoinLines(response.rate_limits))]
       ELSE [MkResult("ResponseError", status)
                EXCEPT !.consumed = JsonConsumed(response.body),
                       !.body = UnwrapOrDefault(JsonApiError(response.body))]

----
\* RetryBackoff: the next interval it returns, doubling up to the maximum.

InitialDelay == 1

HttpMaxRetryInterval == 4

\* RetryBackoff::new
RetryBackoffNew(max_interval) == [current |-> InitialDelay, max |-> max_interval]

\* RetryBackoff::reset
Reset(b) == [b EXCEPT !.current = InitialDelay]

\* RetryBackoff::next_backoff: the interval returned and the state left behind.
NextBackoff(b) ==
    [interval |-> b.current,
     state |-> [b EXCEPT !.current = Min(2 * b.current, b.max)]]

----
\* The actor.

AuthStates ==
    {"Unknown", "RegisterRequestChallenge", "RegisterChallengeResponse", "Registered", "Error"}

RelayModes == {"Managed", "Proxy", "Static"}

Configs ==
    [credentials : BOOLEAN, relay_mode : RelayModes,
     http_max_retry_interval : {HttpMaxRetryInterval}]

\* AuthState::is_authenticated
IsAuthenticatedOnceBegun(state) == state \notin {"Unknown", "Error"}

IsAuthenticated(state) == state = "Registered"

\* UpstreamQuery::path of RegisterRequest (leg 1) and of RegisterResponse (leg 2)
QueryPathSwapped(leg) ==
    IF leg = 1 THEN "/api/0/relays/register/response/"
    ELSE "/api/0/relays/register/challenge/"

QueryPath(leg) ==
    IF leg = 1 THEN "/api/0/relays/register/challenge/"
    ELSE "/api/0/relays/register/response/"

\* The requests of the attempt after the send_query of a leg: the request is
\* sent unless it could not be built.
SentBy(w, leg, built) == IF built THEN Append(w, QueryPath(leg)) ELSE w

\* UpstreamRelay::assert_authenticated: TRUE for Ok(()), FALSE for Err(NotAuthenticated)
AssertAuthenticatedNotUnknown(state) == state # "Unknown"

AssertAuthenticated(state) == IsAuthenticated(state)

\* What the future of send_request resolves to once the transport has answered:
\* the transport failed, or the response went through handle_response.
SendRequestResults ==
    {MkResult("SendFailed", 0)} \cup {HandleResponse(r) : r \in PlainResponses}

\* What the future of send_query resolves to: as send_request, and the body of a
\* successful response is decoded into the query's response type.
SendQueryResults ==
    {MkResult("SendFailed", 0)} \cup
    {LET res == HandleResponse(r)
     IN IF res.kind = "Ok" /\ ~JsonTyped(r.body)
        THEN MkResult("InvalidJson", r.status)
        ELSE res : r \in PlainResponses}

\* What the future of the SendRequest handler resolves to: as send_request, and
\* the transformer consumes a successful response, which may fail.
TransformedResults ==
    SendRequestResults \cup {MkResult("PayloadFailed", st) : st \in {x \in Statuses : IsSuccess(x)}}

\* What a leg of the handshake resolves to: a request that could not be built
\* never reaches the transport.
LegResults(attempt) ==
    IF attempt.sent THEN SendQueryResults ELSE {MkResult("BuildFailed", 0)}

\* should_retry of the map_err of the Authenticate handler
ShouldRetryAlways(err) == TRUE

ShouldRetryNever(err) == FALSE

ShouldRetryOnlySendFailed(err) == err.kind = "SendFailed"

ShouldRetry(err) ==
    IF err.kind = "ResponseError" THEN ~IsClientError(err.status) ELSE TRUE

\* UpstreamRelay::new, the backoff field
NewBackoffIgnoresMax(cfg) == RetryBackoffNew(InitialDelay)

NewBackoff(cfg) == RetryBackoffNew(cfg.http_max_retry_interval)

\* UpstreamRelay::new
Init ==
    /\ config \in Configs
    /\ started = FALSE
    /\ auth_state = "Unknown"
    /\ backoff = NewBackoff(config)
    /\ mailbox = 0
    /\ timers = <<>>
    /\ inflight = <<>>
    /\ calls = <<>>
    /\ nattempts = 0
    /\ nfailed = 0
    /\ lastErr = MkResult("None", 0)
    /\ backoffCalls = 0
    /\ wire = <<>>
    /\ decoded = FALSE
    /\ stage = "idle"
    /\ resp = MkResponse(200, "payload", None, <<>>)
    /\ scoping = [organization |-> 1, project |-> 2, key |-> 3]
    /\ outcome = NoResult
    /\ scoped = <<>>
    /\ returned = <<>>
    /\ vstage = "idle"
    /\ vtype = TValue
    /\ vinput = Annotated(None, EmptyMeta)
    /\ vresult = Returns(Annotated(None, EmptyMeta))
    /\ vskip = FALSE
    /\ vnever = FALSE
    /\ vemitted = FALSE
    /\ vchildren = {}

\* Actor::started
StartedNotifyTwice ==
    /\ ~started
    /\ started' = TRUE
    /\ backoff' = Reset(backoff)
    /\ mailbox' = IF config.relay_mode = "Managed" THEN mailbox + 2 ELSE mailbox
    /\ UNCHANGED <<config, auth_state, timers, inflight, calls, nattempts, nfailed,
                   lastErr, backoffCalls, wire, decoded, respVars, pureVars>>

StartedNotifyInAnyMode ==
    /\ ~started
    /\ started' = TRUE
    /\ backoff' = Reset(backoff)
    /\ mailbox' = mailbox + 1
    /\ UNCHANGED <<config, auth_state, timers, inflight, calls, nattempts, nfailed,
                   lastErr, backoffCalls, wire, decoded, respVars, pureVars>>

Started ==
    /\ ~started
    /\ started' = TRUE
    /\ backoff' = Reset(backoff)
    /\ mailbox' = IF config.relay_mode = "Managed" THEN mailbox + 1 ELSE mailbox
    /\ UNCHANGED <<config, auth_state, timers, inflight, calls, nattempts, nfailed,
                   lastErr, backoffCalls, wire, decoded, respVars, pureVars>>

\* The timer of a notify_later expires: the Authenticate message is delivered.
TimerFire ==
    /\ started
    /\ \E i \in 1..Len(timers) :
        /\ timers' = RemoveAt(timers, i)
        /\ mailbox' = mailbox + 1
    /\ UNCHANGED <<config, started, auth_state, backoff, inflight, calls, nattempts,
                   nfailed, lastErr, backoffCalls, wire, decoded, respVars, pureVars>>

\* Handler<Authenticate>::handle, up to the first leg being sent
HandleAuthenticateStateFirst ==
    /\ started
    /\ mailbox > 0
    /\ nattempts < MaxAttempts
    /\ mailbox' = mailbox - 1
    /\ auth_state' = "RegisterRequestChallenge"
    /\ IF ~config.credentials
       THEN UNCHANGED <<inflight, nattempts, wire, decoded>>
       ELSE /\ nattempts' = nattempts + 1
            /\ decoded' = FALSE
            /\ \E built \in BOOLEAN :
                /\ inflight' = Append(inflight, [leg |-> 1, sent |-> built])
                /\ wire' = SentBy(<<>>, 1, built)
    /\ UNCHANGED <<config, started, backoff, timers, calls, nfailed, lastErr,
                   backoffCalls, respVars, pureVars>>

HandleAuthenticate ==
    /\ started
    /\ mailbox > 0
    /\ nattempts < MaxAttempts
    /\ mailbox' = mailbox - 1
    /\ IF ~config.credentials
       THEN UNCHANGED <<auth_state, inflight, nattempts, wire, decoded>>
       ELSE /\ auth_state' = "RegisterRequestChallenge"
            /\ nattempts' = nattempts + 1
            /\ decoded' = FALSE
            /\ \E built \in BOOLEAN :
                /\ inflight' = Append(inflight, [leg |-> 1, sent |-> built])
                /\ wire' = SentBy(<<>>, 1, built)
    /\ UNCHANGED <<config, started, backoff, timers, calls, nfailed, lastErr,
                   backoffCalls, respVars, pureVars>>

\* Handler<Authenticate>::handle, the and_then after the first leg
ChallengeReceivedKeepsState ==
    /\ \E i \in 1..Len(inflight) :
        /\ inflight[i].leg = 1
        /\ \E res \in LegResults(inflight[i]) : res.kind = "Ok"
        /\ decoded' = TRUE
        /\ \E built \in BOOLEAN :
            /\ inflight' = [inflight EXCEPT ![i] = [leg |-> 2, sent |-> built]]
            /\ wire' = SentBy(wire, 2, built)
    /\ UNCHANGED <<config, started, auth_state, backoff, mailbox, timers, calls, nattempts,
                   nfailed, lastErr, backoffCalls, respVars, pureVars>>

ChallengeReceived ==
    /\ \E i \in 1..Len(inflight) :
        /\ inflight[i].leg = 1
        /\ \E res \in LegResults(inflight[i]) : res.kind = "Ok"
        /\ auth_state' = "RegisterChallengeResponse"
        /\ decoded' = TRUE
        /\ \E built \in BOOLEAN :
            /\ inflight' = [inflight EXCEPT ![i] = [leg |-> 2, sent |-> built]]
            /\ wire' = SentBy(wire, 2, built)
    /\ UNCHANGED <<config, started, backoff, mailbox, timers, calls, nattempts, nfailed,
                   lastErr, backoffCalls, respVars, pureVars>>

\* Handler<Authenticate>::handle, the map after the second leg
RegistrationSucceededResetsBackoff ==
    /\ \E i \in 1..Len(inflight) :
        /\ inflight[i].leg = 2
        /\ \E res \in LegResults(inflight[i]) : res.kind = "Ok"
        /\ auth_state' = "Registered"
        /\ backoff' = Reset(backoff)
        /\ inflight' = RemoveAt(inflight, i)
    /\ UNCHANGED <<config, started, mailbox, timers, calls, nattempts, nfailed,
                   lastErr, backoffCalls, wire, decoded, respVars, pureVars>>

RegistrationSucceeded ==
    /\ \E i \in 1..Len(inflight) :
        /\ inflight[i].leg = 2
        /\ \E res \in LegResults(inflight[i]) : res.kind = "Ok"
        /\ auth_state' = "Registered"
        /\ inflight' = RemoveAt(inflight, i)
    /\ UNCHANGED <<config, started, backoff, mailbox, timers, calls, nattempts, nfailed,
                   lastErr, backoffCalls, wire, decoded, respVars, pureVars>>

\* Handler<Authenticate>::handle, the map_err after either leg
AuthenticateFailedKeepsState ==
    /\ \E i \in 1..Len(inflight) :
        \E err \in LegResults(inflight[i]) :
            /\ err.kind # "Ok"
            /\ inflight' = RemoveAt(inflight, i)
            /\ lastErr' = err
            /\ nfailed' = nfailed + 1
            /\ IF ShouldRetry(err)
               THEN /\ backoff' = NextBackoff(backoff).state
                    /\ backoffCalls' = backoffCalls + 1
                    /\ timers' = Append(timers, NextBackoff(backoff).interval)
               ELSE UNCHANGED <<backoff, backoffCalls, timers>>
    /\ UNCHANGED <<config, started, auth_state, mailbox, calls, nattempts, wire, decoded,
                   respVars, pureVars>>

AuthenticateFailed ==
    /\ \E i \in 1..Len(inflight) :
        \E err \in LegResults(inflight[i]) :
            /\ err.kind # "Ok"
            /\ auth_state' = "Error"
            /\ inflight' = RemoveAt(inflight, i)
            /\ lastErr' = err
            /\ nfailed' = nfailed + 1
            /\ IF ShouldRetry(err)
               THEN /\ backoff' = NextBackoff(backoff).state
                    /\ backoffCalls' = backoffCalls + 1
                    /\ timers' = Append(timers, NextBackoff(backoff).interval)
               ELSE UNCHANGED <<backoff, backoffCalls, timers>>
    /\ UNCHANGED <<config, started, mailbox, calls, nattempts, wire, decoded, respVars, pureVars>>

\* A message of a caller as the handler left it: the auth_state it met, whether
\* its request was built and handed to the transport, and the kind and status
\* of what its future resolved to, if it has.
MkCall(kind, built, sent, done, result) ==
    [kind |-> kind, authAt |-> auth_state, built |-> built, sent |-> sent,
     done |-> done, result |-> result, reply |-> FALSE]

\* UpstreamRelay::send_query, up to the request being sent
SendQueryCall(built) ==
    IF ~config.credentials
    THEN MkCall("query", FALSE, FALSE, TRUE, MkResult("NoCredentials", 0))
    ELSE IF ~built
    THEN MkCall("query", FALSE, FALSE, TRUE, MkResult("BuildFailed", 0))
    ELSE MkCall("query", TRUE, TRUE, FALSE, NoResult)

\* Handler<SendQuery<T>>::handle
SendQueryCredentialsFirst ==
    /\ started
    /\ Len(calls) < MaxCalls
    /\ \E built \in BOOLEAN :
        calls' = Append(calls,
                        IF ~config.credentials
                        THEN MkCall("query", FALSE, FALSE, TRUE, MkResult("NoCredentials", 0))
                        ELSE IF ~AssertAuthenticated(auth_state)
                        THEN MkCall("query", FALSE, FALSE, TRUE, MkResult("NotAuthenticated", 0))
                        ELSE SendQueryCall(built))
    /\ UNCHANGED <<config, started, auth_state, backoff, mailbox, timers, inflight,
                   nattempts, nfailed, lastErr, backoffCalls, wire, decoded, respVars, pureVars>>

SendQuery ==
    /\ started
    /\ Len(calls) < MaxCalls
    /\ \E built \in BOOLEAN :
        calls' = Append(calls,
                        IF ~AssertAuthenticated(auth_state)
                        THEN MkCall("query", FALSE, FALSE, TRUE, MkResult("NotAuthenticated", 0))
                        ELSE SendQueryCall(built))
    /\ UNCHANGED <<config, started, auth_state, backoff, mailbox, timers, inflight,
                   nattempts, nfailed, lastErr, backoffCalls, wire, decoded, respVars, pureVars>>

\* Handler<SendRequest<B, R>>::handle
SendRequestAuthenticated ==
    /\ started
    /\ Len(calls) < MaxCalls
    /\ \E built \in BOOLEAN :
        calls' = Append(calls,
                        IF ~AssertAuthenticated(auth_state)
                        THEN MkCall("request", built, FALSE, TRUE, MkResult("NotAuthenticated", 0))
                        ELSE IF ~built
                        THEN MkCall("request", FALSE, FALSE, TRUE, MkResult("BuildFailed", 0))
                        ELSE MkCall("request", TRUE, TRUE, FALSE, NoResult))
    /\ UNCHANGED <<config, started, auth_state, backoff, mailbox, timers, inflight,
                   nattempts, nfailed, lastErr, backoffCalls, wire, decoded, respVars, pureVars>>

SendRequest ==
    /\ started
    /\ Len(calls) < MaxCalls
    /\ \E built \in BOOLEAN :
        calls' = Append(calls,
                        IF ~built
                        THEN MkCall("request", FALSE, FALSE, TRUE, MkResult("BuildFailed", 0))
                        ELSE MkCall("request", TRUE, TRUE, FALSE, NoResult))
    /\ UNCHANGED <<config, started, auth_state, backoff, mailbox, timers, inflight,
                   nattempts, nfailed, lastErr, backoffCalls, wire, decoded, respVars, pureVars>>

\* Handler<IsAuthenticated>::handle
HandleIsAuthenticated ==
    /\ started
    /\ Len(calls) < MaxCalls
    /\ calls' = Append(calls,
                       [MkCall("is_authenticated", FALSE, FALSE, TRUE, NoResult)
                            EXCEPT !.reply = IsAuthenticated(auth_state)])
    /\ UNCHANGED <<config, started, auth_state, backoff, mailbox, timers, inflight,
                   nattempts, nfailed, lastErr, backoffCalls, wire, decoded, respVars, pureVars>>

\* The future of a SendQuery or SendRequest resolves.
CallResolvedInvalidatesAuth ==
    /\ \E i \in 1..Len(calls) :
        /\ ~calls[i].done
        /\ \E res \in (IF calls[i].kind = "query" THEN SendQueryResults
                       ELSE TransformedResults) :
            /\ calls' = [calls EXCEPT ![i].done = TRUE,
                                      ![i].result = MkResult(res.kind, res.status)]
            /\ auth_state' = IF res.kind = "ResponseError" /\ res.status = 403
                             THEN "Error" ELSE auth_state
    /\ UNCHANGED <<config, started, backoff, mailbox, timers, inflight,
                   nattempts, nfailed, lastErr, backoffCalls, wire, decoded, respVars, pureVars>>

CallResolved ==
    /\ \E i \in 1..Len(calls) :
        /\ ~calls[i].done
        /\ \E res \in (IF calls[i].kind = "query" THEN SendQueryResults
                       ELSE TransformedResults) :
            calls' = [calls EXCEPT ![i].done = TRUE,
                                   ![i].result = MkResult(res.kind, res.status)]
    /\ UNCHANGED <<config, started, auth_state, backoff, mailbox, timers, inflight,
                   nattempts, nfailed, lastErr, backoffCalls, wire, decoded, respVars, pureVars>>

Next ==
    \/ Started
    \/ TimerFire
    \/ HandleAuthenticate
    \/ ChallengeReceived
    \/ RegistrationSucceeded
    \/ AuthenticateFailed
    \/ SendQuery
    \/ SendRequest
    \/ HandleIsAuthenticated
    \/ CallResolved

Spec == Init /\ [][Next]_vars

----
\* The classification of one response and the scoping of its rate limits,
\* for every response and Scoping of the bounded sets.

InitResponse ==
    /\ config = [credentials |-> TRUE, relay_mode |-> "Managed",
                 http_max_retry_interval |-> HttpMaxRetryInterval]
    /\ started = FALSE
    /\ auth_state = "Unknown"
    /\ backoff = NewBackoff(config)
    /\ mailbox = 0
    /\ timers = <<>>
    /\ inflight = <<>>
    /\ calls = <<>>
    /\ nattempts = 0
    /\ nfailed = 0
    /\ lastErr = MkResult("None", 0)
    /\ backoffCalls = 0
    /\ wire = <<>>
    /\ decoded = FALSE
    /\ stage = "received"
    /\ resp \in Responses
    /\ scoping \in Scopings
    /\ outcome = NoResult
    /\ scoped = <<>>
    /\ returned = <<>>
    /\ vstage = "idle"
    /\ vtype = TValue
    /\ vinput = Annotated(None, EmptyMeta)
    /\ vresult = Returns(Annotated(None, EmptyMeta))
    /\ vskip = FALSE
    /\ vnever = FALSE
    /\ vemitted = FALSE
    /\ vchildren = {}

\* send_request: the response goes through handle_response
Classify ==
    /\ stage = "received"
    /\ outcome' = HandleResponse(resp)
    /\ stage' = "handled"
    /\ UNCHANGED <<actorVars, resp, scoping, scoped, pureVars>>

\* The caller scopes the rate limits of a RateLimited error.
ScopeLimits ==
    /\ stage = "handled"
    /\ outcome.kind = "RateLimited"
    /\ scoped' = Scope(outcome.limits, scoping)
    /\ stage' = "scoped"
    /\ UNCHANGED <<actorVars, resp, scoping, outcome, pureVars>>

NextResponse == Classify \/ ScopeLimits

SpecResponse == InitResponse /\ [][NextResponse]_vars

----
\* The backoff of one actor under any sequence of next_backoff() and reset()
\* calls, for several configured maximum intervals.

RetryIntervals == {1, 4, 5, 8}

InitBackoff ==
    /\ config \in [credentials : {TRUE}, relay_mode : {"Managed"},
                   http_max_retry_interval : RetryIntervals]
    /\ started = FALSE
    /\ auth_state = "Unknown"
    /\ backoff = NewBackoff(config)
    /\ mailbox = 0
    /\ timers = <<>>
    /\ inflight = <<>>
    /\ calls = <<>>
    /\ nattempts = 0
    /\ nfailed = 0
    /\ lastErr = MkResult("None", 0)
    /\ backoffCalls = 0
    /\ wire = <<>>
    /\ decoded = FALSE
    /\ stage = "idle"
    /\ resp = MkResponse(200, "payload", None, <<>>)
    /\ scoping = [organization |-> 1, project |-> 2, key |-> 3]
    /\ outcome = NoResult
    /\ scoped = <<>>
    /\ returned = <<>>
    /\ vstage = "idle"
    /\ vtype = TValue
    /\ vinput = Annotated(None, EmptyMeta)
    /\ vresult = Returns(Annotated(None, EmptyMeta))
    /\ vskip = FALSE
    /\ vnever = FALSE
    /\ vemitted = FALSE
    /\ vchildren = {}

\* slf.backoff.next_backoff()
CallNextBackoff ==
    /\ Len(returned) < MaxBackoffCalls
    /\ returned' = Append(returned, [op |-> "next_backoff",
                                     interval |-> NextBackoff(backoff).interval])
    /\ backoff' = NextBackoff(backoff).state
    /\ UNCHANGED <<config, started, auth_state, mailbox, timers, inflight, calls, nattempts,
                   nfailed, lastErr, backoffCalls, wire, decoded, respVars, valueVars>>

\* self.backoff.reset()
CallReset ==
    /\ Len(returned) < MaxBackoffCalls
    /\ returned' = Append(returned, [op |-> "reset", interval |-> 0])
    /\ backoff' = Reset(backoff)
    /\ UNCHANGED <<config, started, auth_state, mailbox, timers, inflight, calls, nattempts,
                   nfailed, lastErr, backoffCalls, wire, decoded, respVars, valueVars>>

NextBackoffCalls == CallNextBackoff \/ CallReset

SpecBackoff == InitBackoff /\ [][NextBackoffCalls]_vars

----
\* The conversion of one annotated value into one type, the skip_serialization
\* of what it gave and the serialization of a record field holding it.

InitValue ==
    /\ config = [credentials |-> TRUE, relay_mode |-> "Managed",
                 http_max_retry_interval |-> HttpMaxRetryInterval]
    /\ started = FALSE
    /\ auth_state = "Unknown"
    /\ backoff = NewBackoff(config)
    /\ mailbox = 0
    /\ timers = <<>>
    /\ inflight = <<>>
    /\ calls = <<>>
    /\ nattempts = 0
    /\ nfailed = 0
    /\ lastErr = MkResult("None", 0)
    /\ backoffCalls = 0
    /\ wire = <<>>
    /\ decoded = FALSE
    /\ stage = "idle"
    /\ resp = MkResponse(200, "payload", None, <<>>)
    /\ scoping = [organization |-> 1, project |-> 2, key |-> 3]
    /\ outcome = NoResult
    /\ scoped = <<>>
    /\ returned = <<>>
    /\ vstage = "input"
    /\ vtype \in Types
    /\ vinput \in Inputs
    /\ vresult = Returns(Annotated(None, EmptyMeta))
    /\ vskip = FALSE
    /\ vnever = FALSE
    /\ vemitted = FALSE
    /\ vchildren = {}

\* FromValue::from_value(vinput)
Convert ==
    /\ vstage = "input"
    /\ vresult' = FromValue(vtype, vinput)
    /\ vstage' = "converted"
    /\ UNCHANGED <<actorVars, respVars, returned, vtype, vinput, vskip, vnever, vemitted,
                   vchildren>>

\* value.skip_serialization() of the converted value
SkipCheck ==
    /\ vstage = "converted"
    /\ ~vresult.panic
    /\ vresult.ann.value # None
    /\ vskip' = SkipSerialization(vtype, vresult.ann.value[1])
    /\ vstage' = "checked"
    /\ UNCHANGED <<actorVars, respVars, returned, vtype, vinput, vresult, vnever, vemitted,
                   vchildren>>

\* serialize_payload of a record with the converted value as a field
SerializeField ==
    /\ vstage = "checked"
    /\ \E never \in BOOLEAN :
        /\ vnever' = never
        /\ vemitted' = FieldEmitted(never, vtype, vresult.ann)
    /\ vstage' = "serialized"
    /\ UNCHANGED <<actorVars, respVars, returned, vtype, vinput, vresult, vskip, vchildren>>

\* value.extract_child_meta() of the converted value
ExtractMeta ==
    /\ vstage = "converted"
    /\ ~vresult.panic
    /\ vresult.ann.value # None
    /\ vchildren' = ExtractChildMeta(vtype, vresult.ann.value[1])
    /\ vstage' = "extracted"
    /\ UNCHANGED <<actorVars, respVars, returned, vtype, vinput, vresult, vskip, vnever,
                   vemitted>>

NextValue == Convert \/ SkipCheck \/ SerializeField \/ ExtractMeta

SpecValue == InitValue /\ [][NextValue]_vars

----
\* The handshake of one actor over its whole lifetime: attempts are retried
\* without bound, the counters of attempts stop counting at MaxAttempts.

CountUpTo(n) == Min(n + 1, MaxAttempts)

InitLive ==
    /\ config \in Configs
    /\ started = FALSE
    /\ auth_state = "Unknown"
    /\ backoff = NewBackoff(config)
    /\ mailbox = 0
    /\ timers = <<>>
    /\ inflight = <<>>
    /\ calls = <<>>
    /\ nattempts = 0
    /\ nfailed = 0
    /\ lastErr = MkResult("None", 0)
    /\ backoffCalls = 0
    /\ wire = <<>>
    /\ decoded = FALSE
    /\ stage = "idle"
    /\ resp = MkResponse(200, "payload", None, <<>>)
    /\ scoping = [organization |-> 1, project |-> 2, key |-> 3]
    /\ outcome = NoResult
    /\ scoped = <<>>
    /\ returned = <<>>
    /\ vstage = "idle"
    /\ vtype = TValue
    /\ vinput = Annotated(None, EmptyMeta)
    /\ vresult = Returns(Annotated(None, EmptyMeta))
    /\ vskip = FALSE
    /\ vnever = FALSE
    /\ vemitted = FALSE
    /\ vchildren = {}

\* Handler<Authenticate>::handle, up to the first leg being sent
HandleAuthenticateLive ==
    /\ started
    /\ mailbox > 0
    /\ mailbox' = mailbox - 1
    /\ IF ~config.credentials
       THEN UNCHANGED <<auth_state, inflight, nattempts, wire, decoded>>
       ELSE /\ auth_state' = "RegisterRequestChallenge"
            /\ nattempts' = CountUpTo(nattempts)
            /\ decoded' = FALSE
            /\ \E built \in BOOLEAN :
                /\ inflight' = Append(inflight, [leg |-> 1, sent |-> built])
                /\ wire' = SentBy(<<>>, 1, built)
    /\ UNCHANGED <<config, started, backoff, timers, calls, nfailed, lastErr,
                   backoffCalls, respVars, pureVars>>

\* Handler<Authenticate>::handle, the map_err after either leg
AuthenticateFailedLive ==
    /\ \E i \in 1..Len(inflight) :
        \E err \in LegResults(inflight[i]) :
            /\ err.kind # "Ok"
            /\ auth_state' = "Error"
            /\ inflight' = RemoveAt(inflight, i)
            /\ lastErr' = err
            /\ nfailed' = CountUpTo(nfailed)
            /\ IF ShouldRetry(err)
               THEN /\ backoff' = NextBackoff(backoff).state
                    /\ backoffCalls' = CountUpTo(backoffCalls)
                    /\ timers' = Append(timers, NextBackoff(backoff).interval)
               ELSE UNCHANGED <<backoff, backoffCalls, timers>>
    /\ UNCHANGED <<config, started, mailbox, calls, nattempts, wire, decoded, respVars, pureVars>>

\* The future of the leg in flight resolves.
LegResolves == ChallengeReceived \/ RegistrationSucceeded \/ AuthenticateFailedLive

\* The requests of both legs are built and the upstream answers them with
\* success and the expected payload.
FirstLegSent == HandleAuthenticateLive /\ inflight' # <<>> /\ inflight'[Len(inflight')].sent

SecondLegSent == ChallengeReceived /\ \E i \in 1..Len(inflight') : inflight'[i] = [leg |-> 2, sent |-> TRUE]

NextLive ==
    \/ Started
    \/ TimerFire
    \/ HandleAuthenticateLive
    \/ ChallengeReceived
    \/ RegistrationSucceeded
    \/ AuthenticateFailedLive

\* The actor is started, delivered messages are handled, scheduled retries
\* fire and requests in flight resolve.
SpecLive ==
    /\ InitLive
    /\ [][NextLive]_vars
    /\ WF_vars(Started)
    /\ WF_vars(TimerFire)
    /\ WF_vars(HandleAuthenticateLive)
    /\ WF_vars(LegResolves)

----
\* Properties of the actor (specification Spec).

\* C1: a SendQuery handled in any auth_state other than Registered has failed
\* at once with NotAuthenticated and its request has not been handed to the
\* transport, in that state and in every later one.
C1_QueryRejectedWhenUnauthenticated ==
    \A i \in 1..Len(calls) :
        (calls[i].kind = "query" /\ calls[i].authAt # "Registered") =>
            /\ calls[i].done
            /\ calls[i].result.kind = "NotAuthenticated"
            /\ ~calls[i].sent

C1_Witness ==
    \E i \in 1..Len(calls) :
        /\ calls[i].kind = "query"
        /\ calls[i].authAt = "Error"
        /\ calls[i].result.kind = "NotAuthenticated"
        /\ auth_state = "Registered"

\* The step in which a handshake attempt ends in its map_err.
AttemptFails == nfailed' = nfailed + 1

\* The step schedules exactly one retry, after the interval of one next_backoff().
RetryScheduled ==
    /\ timers' = Append(timers, NextBackoff(backoff).interval)
    /\ backoff' = NextBackoff(backoff).state
    /\ backoffCalls' = backoffCalls + 1
    /\ mailbox' = mailbox

\* The step schedules no retry and leaves the backoff alone.
NoRetryScheduled ==
    /\ timers' = timers
    /\ backoff' = backoff
    /\ backoffCalls' = backoffCalls
    /\ mailbox' = mailbox

\* C2 as stated: an attempt that ends on a response with any status 400..499
\* leaves auth_state = Error and schedules no retry; one that ends on a 5xx
\* leaves Error and schedules exactly one retry after next_backoff().
C2_ClientErrorStopsRetries_Original ==
    [][AttemptFails =>
        /\ (lastErr'.status \in 400..499 => auth_state' = "Error" /\ NoRetryScheduled)
        /\ (lastErr'.status \in 500..599 => auth_state' = "Error" /\ RetryScheduled)]_vars

\* C2 amended: as C2, for every status 400..499 other than 429.
C2_ClientErrorStopsRetries ==
    [][AttemptFails =>
        /\ (lastErr'.status \in (400..499) \ {429} =>
                auth_state' = "Error" /\ NoRetryScheduled)
        /\ (lastErr'.status \in 500..599 => auth_state' = "Error" /\ RetryScheduled)]_vars

C2_Witness ==
    /\ nfailed > 0
    /\ lastErr.kind = "ResponseError"
    /\ lastErr.status = 403
    /\ auth_state = "Error"
    /\ timers = <<>>
    /\ mailbox = 0

\* C3: an attempt that ends on a 429 response ends with RateLimited, leaves
\* auth_state = Error and schedules a retry after next_backoff().
C3_RateLimitedRetries ==
    [][(AttemptFails /\ (lastErr'.status = 429 \/ lastErr'.kind = "RateLimited")) =>
        /\ lastErr'.kind = "RateLimited"
        /\ lastErr'.status = 429
        /\ auth_state' = "Error"
        /\ RetryScheduled]_vars

C3_Witness ==
    /\ nfailed > 0
    /\ lastErr.kind = "RateLimited"
    /\ auth_state = "Error"
    /\ Len(timers) = 1

\* C4: an attempt that ends with any error other than a ResponseError with a
\* client-error status leaves auth_state = Error, calls next_backoff() exactly
\* once and schedules exactly one Authenticate after that interval.
C4_OtherErrorsScheduleBackoff ==
    [][(AttemptFails /\ ~(lastErr'.kind = "ResponseError" /\ IsClientError(lastErr'.status))) =>
        /\ auth_state' = "Error"
        /\ RetryScheduled]_vars

C4_Witness ==
    /\ nfailed = 2
    /\ lastErr.kind \in {"SendFailed", "InvalidJson", "BuildFailed"}
    /\ auth_state = "Error"
    /\ timers = <<2>>
    /\ backoffCalls = 2

\* C5: once the second leg has succeeded (auth_state = Registered) the backoff
\* is reset: the next next_backoff() returns the initial delay.
C5_RegisteredResetsBackoff ==
    auth_state = "Registered" => NextBackoff(backoff).interval = InitialDelay

\* C6: at most one Authenticate is delivered, scheduled or in flight at any time.
C6_OneHandshakeAtATime ==
    mailbox + Len(timers) + Len(inflight) <= 1

C6_Witness ==
    /\ nfailed > 0
    /\ Len(inflight) = 1
    /\ inflight[1].leg = 2
    /\ mailbox = 0
    /\ timers = <<>>

\* C7: a SendRequest never fails with NotAuthenticated, and one whose builder
\* succeeded has been handed to the transport, whatever auth_state it met.
C7_SendRequestNeedsNoAuth ==
    \A i \in 1..Len(calls) :
        calls[i].kind = "request" =>
            /\ calls[i].result.kind # "NotAuthenticated"
            /\ (calls[i].built => calls[i].sent)

C7_Witness ==
    \E i \in 1..Len(calls) :
        /\ calls[i].kind = "request"
        /\ calls[i].authAt \in {"Unknown", "Error"}
        /\ calls[i].built
        /\ calls[i].sent
        /\ calls[i].done
        /\ calls[i].result.kind = "Ok"

----
\* Properties of the classification and the scoping (specification SpecResponse).

\* C8: handle_response returns the response itself iff the status is 2xx,
\* RateLimited iff it is 429, and for any other status ResponseError with that
\* status and the decoded ApiErrorResponse, an empty one if the body does not decode.
C8_ClassifiedByStatus ==
    stage # "received" =>
        /\ (outcome.kind = "Ok") <=> (resp.status \in 200..299)
        /\ (outcome.kind = "Ok") => outcome.response = <<resp>>
        /\ (outcome.kind = "RateLimited") <=> (resp.status = 429)
        /\ (resp.status \notin (200..299) \cup {429}) =>
            /\ outcome.kind = "ResponseError"
            /\ outcome.status = resp.status
            /\ outcome.body = [detail |-> IF resp.body = "error" THEN <<"detail">> ELSE <<>>]

C8_Witness ==
    /\ stage = "handled"
    /\ resp.status = 499
    /\ resp.body = "garbage"
    /\ outcome.kind = "ResponseError"
    /\ outcome.body = [detail |-> <<>>]

\* The quotas the X-Sentry-Rate-Limits header of resp yields for scoping.
HeaderQuotas == ParseRateLimits(scoping, JoinLines(resp.rate_limits))

\* The value the Retry-After header of resp carried, if any.
RetryAfterValue ==
    IF RetryAfterHeader(resp) = None THEN None ELSE ParseRetryAfter(RetryAfterHeader(resp)[1])

\* The one limit at Key scope with retry_after d.
KeyLimit(d) ==
    [categories |-> {}, scope |-> [kind |-> "key", id |-> scoping.key],
     reason_code |-> <<>>, retry_after |-> d]

C10_NoFallbackWithoutRetryAfter_Original ==
    (stage = "scoped" /\ HeaderQuotas = <<>> /\ RetryAfterValue = None) => scoped = <<>>

\* C10 amended: in that case scope yields exactly the one limit at Key scope
\* with retry_after zero.
C10_ZeroFallbackWithoutRetryAfter ==
    (stage = "scoped" /\ HeaderQuotas = <<>> /\ RetryAfterValue = None) =>
        scoped = <<KeyLimit(0)>>

C10_Witness ==
    /\ stage = "scoped"
    /\ resp.rate_limits = <<[ascii |-> TRUE, text |-> <<Junk>>]>>
    /\ resp.retry_after = <<[ascii |-> TRUE, text |-> <<"x">>]>>
    /\ scoped = <<KeyLimit(0)>>

----
\* Further properties of the actor (specification Spec).

\* C11: without credentials, handling Authenticate changes neither auth_state
\* nor the backoff, sends no request and schedules no retry.
C11_NoCredentialsNoOp ==
    [][(mailbox' = mailbox - 1 /\ ~config.credentials) =>
        /\ auth_state' = auth_state
        /\ backoff' = backoff
        /\ backoffCalls' = backoffCalls
        /\ inflight' = inflight
        /\ wire' = wire
        /\ timers' = timers]_vars

C11_Witness ==
    /\ started
    /\ config.relay_mode = "Managed"
    /\ ~config.credentials
    /\ mailbox = 0
    /\ auth_state = "Unknown"
    /\ wire = <<>>

\* C12: Actor::started delivers one Authenticate iff relay_mode is Managed; in
\* any other mode no Authenticate is ever delivered or scheduled, no handshake
\* request is ever sent and auth_state stays Unknown.
C12_AuthenticateOnlyWhenManaged ==
    /\ [][(~started /\ started') =>
            mailbox' = mailbox + (IF config.relay_mode = "Managed" THEN 1 ELSE 0)]_vars
    /\ [](config.relay_mode # "Managed" =>
            /\ auth_state = "Unknown"
            /\ mailbox = 0
            /\ timers = <<>>
            /\ inflight = <<>>
            /\ wire = <<>>
            /\ nattempts = 0)

C12_Witness ==
    /\ started
    /\ config.relay_mode = "Proxy"
    /\ config.credentials
    /\ auth_state = "Unknown"
    /\ Len(calls) = 1
    /\ calls[1].done

\* C13: IsAuthenticated answers true exactly when auth_state is Registered and
\* leaves auth_state and the backoff as they were.
C13_IsAuthenticatedPureRead ==
    /\ [](\A i \in 1..Len(calls) :
            calls[i].kind = "is_authenticated" =>
                (calls[i].reply <=> calls[i].authAt = "Registered"))
    /\ [][(Len(calls') = Len(calls) + 1 /\ calls'[Len(calls')].kind = "is_authenticated") =>
            /\ auth_state' = auth_state
            /\ backoff' = backoff
            /\ backoffCalls' = backoffCalls]_vars

C13_Witness ==
    \E i \in 1..Len(calls) :
        /\ calls[i].kind = "is_authenticated"
        /\ calls[i].authAt = "Registered"
        /\ calls[i].reply

\* The changes of auth_state the handshake allows.
AuthTransitions ==
    {<<"Unknown", "RegisterRequestChallenge">>,
     <<"Error", "RegisterRequestChallenge">>,
     <<"RegisterRequestChallenge", "RegisterChallengeResponse">>,
     <<"RegisterChallengeResponse", "Registered">>,
     <<"RegisterRequestChallenge", "Error">>,
     <<"RegisterChallengeResponse", "Error">>}

\* C19: auth_state changes only along Unknown -> RegisterRequestChallenge,
\* Error -> RegisterRequestChallenge, RegisterRequestChallenge ->
\* RegisterChallengeResponse -> Registered, and from either intermediate state
\* to Error.
C19_AuthStateTransitions ==
    [][auth_state' # auth_state => <<auth_state, auth_state'>> \in AuthTransitions]_vars

C19_Witness ==
    /\ auth_state = "Registered"
    /\ nfailed = 2
    /\ decoded

\* C20: an attempt sends at most one challenge request and at most one response
\* request, the response request only after the challenge request and only once
\* the challenge was decoded.
C20_ResponseAfterChallenge ==
    /\ wire \in {<<>>,
                 <<"/api/0/relays/register/challenge/">>,
                 <<"/api/0/relays/register/challenge/", "/api/0/relays/register/response/">>}
    /\ Len(wire) = 2 => decoded

C20_Witness ==
    /\ Len(wire) = 2
    /\ auth_state = "Error"
    /\ nfailed = 1
    /\ lastErr.kind = "ResponseError"

----
\* Properties of the backoff (specification SpecBackoff).

\* C18: the first next_backoff() and the first after a reset() return the
\* initial delay; every other one returns twice the interval returned before it,
\* or the configured http_max_retry_interval if that is less, so the intervals
\* between two resets never decrease and never exceed the maximum.
C18_BackoffMonotonic ==
    \A i \in 1..Len(returned) :
        returned[i].op = "next_backoff" =>
            IF i = 1 \/ returned[i - 1].op = "reset"
            THEN returned[i].interval = InitialDelay
            ELSE /\ returned[i].interval >= returned[i - 1].interval
                 /\ returned[i].interval <= config.http_max_retry_interval
                 /\ \/ returned[i].interval = 2 * returned[i - 1].interval
                    \/ /\ returned[i].interval = config.http_max_retry_interval
                       /\ 2 * returned[i - 1].interval >= config.http_max_retry_interval

C18_Witness ==
    /\ config.http_max_retry_interval = 5
    /\ Len(returned) = 5
    /\ returned[1].interval = 1
    /\ returned[2].interval = 2
    /\ returned[3].interval = 4
    /\ returned[4].interval = 5
    /\ returned[5].interval = 5

----
\* Properties of FromValue and ToValue (specification SpecValue).

\* The value from_value was applied to, and the errors of its meta before.
InputValue == vinput.value[1]

Converted == vstage # "input"

\* The variants a FromValue implementation has an arm for, Null aside.
RECURSIVE AcceptedVariants(_)
AcceptedVariants(t) ==
    CASE t.kind = "Value" -> {"Bool", "U64", "I64", "F64", "String", "Array", "Object"}
      [] t.kind = "DateTime" -> {"String", "U64", "I64", "F64"}
      [] t.kind = "Array" -> {"Array"}
      [] t.kind = "Object" -> {"Object"}
      [] t.kind = "Box" -> AcceptedVariants(t.elem[1])
      [] t.kind = "Tuple" -> {"Array"}

\* C14: for Array, Object, DateTime, Box and the tuples of arity 1..12,
\* from_value of Annotated(Some(Null), meta) is Annotated(None, meta), the meta
\* unchanged and no error appended.
C14_NullPropagation ==
    (/\ Converted
     /\ vtype.kind \in {"Array", "Object", "DateTime", "Box", "Tuple"}
     /\ vinput.value = Some(VNull))
        => vresult = Returns(Annotated(None, vinput.meta))

\* C15: from_value of a variant the implementation has no arm for, Null aside,
\* returns no value and a meta with exactly one more error, whose message
\* begins with "expected" and whose original value is the rejected input; the
\* earlier errors are kept in order.
C15_UnexpectedVariant ==
    (/\ Converted
     /\ vinput.value # None
     /\ InputValue.tag \notin AcceptedVariants(vtype) \cup {"Null"})
        => /\ ~vresult.panic
           /\ vresult.ann.value = None
           /\ Len(vresult.ann.meta.errors) = Len(vinput.meta.errors) + 1
           /\ SubSeq(vresult.ann.meta.errors, 1, Len(vinput.meta.errors)) = vinput.meta.errors
           /\ LET e == vresult.ann.meta.errors[Len(vresult.ann.meta.errors)]
              IN /\ e.message[1] = "expected"
                 /\ Len(e.message) = 2
                 /\ e.original_value = Some(InputValue)

C15_Witness ==
    /\ Converted
    /\ vtype.kind \in {"Array", "Object", "DateTime", "Tuple"}
    /\ vinput.value # None
    /\ InputValue.tag \notin AcceptedVariants(vtype) \cup {"Null"}
    /\ vinput.meta = OlderMeta
    /\ Len(vresult.ann.meta.errors) = 2

\* C16: from_value of an array into a tuple of arity n returns no value and
\* the error "expected tuple", with the array as original value, exactly when
\* the length of the array differs from n; otherwise it returns the tuple of
\* the from_value of the elements, in order, with the outer meta unchanged.
C16_TupleArity ==
    (/\ Converted
     /\ vtype.kind = "Tuple"
     /\ vinput.value # None
     /\ InputValue.tag = "Array")
        => LET items == InputValue.items
               rejected ==
                   Returns(Annotated(None,
                       [errors |-> Append(vinput.meta.errors,
                           [message |-> <<"expected", "tuple">>,
                            original_value |-> Some(VArray(items))])]))
               each == [i \in 1..Len(items) |-> FromValue(vtype.elem[1], items[i])]
           IN /\ (Len(items) # vtype.arity) <=> (vresult = rejected)
              /\ (Len(items) = vtype.arity /\ \A i \in 1..Len(items) : ~each[i].panic)
                    => /\ ~vresult.panic
                       /\ vresult.ann.meta = vinput.meta
                       /\ vresult.ann.value # None
                       /\ vresult.ann.value[1].tag = "Tuple"
                       /\ Len(vresult.ann.value[1].items) = vtype.arity
                       /\ \A i \in 1..vtype.arity :
                            vresult.ann.value[1].items[i] = each[i].ann

C16_Witness ==
    /\ Converted
    /\ vtype = TTuple(2, TDateTime)
    /\ vinput.value # None
    /\ InputValue.tag = "Array"
    /\ Len(InputValue.items) = 2
    /\ InputValue.items[1].value = Some(VU64(1))
    /\ InputValue.items[2].value = Some(VString("a"))
    /\ ~vresult.panic
    /\ vresult.ann.value # None
    /\ vresult.ann.value[1].items[1].value = Some(VDateTime(1, 0))
    /\ vresult.ann.value[1].items[2].value = None

\* C17: skip_serialization() of an Array or Object is true exactly when the
\* container is empty or skip_serialization() of every child is true, and a
\* record field holding such a container is left out of the output unless the
\* type of the field is tagged skip_serialization = "never".
C17_ContainerSkip ==
    (/\ vstage \in {"checked", "serialized"}
     /\ vtype.kind \in {"Array", "Object"})
        => LET items == vresult.ann.value[1].items
               all == \/ items = <<>>
                      \/ \A i \in 1..Len(items) :
                            \/ items[i].value = None
                            \/ /\ vtype.elem[1].kind \in {"Array", "Object"}
                               /\ SkipSerialization(vtype.elem[1], items[i].value[1])
           IN /\ vskip = all
              /\ (vstage = "serialized" /\ vskip) => (vemitted = vnever)

C17_Witness ==
    /\ vstage = "serialized"
    /\ vtype = TArray(TArray(TValue))
    /\ Len(vresult.ann.value[1].items) = 2
    /\ vresult.ann.value[1].items[1].value = Some(VArray(<<>>))
    /\ vresult.ann.value[1].items[2].value = None
    /\ vskip
    /\ ~vnever
    /\ ~vemitted

----
\* Properties of handle_response (specification SpecResponse), continued.

\* C21: the RateLimited or ResponseError failure of a response that is no
\* success is surfaced only once the body of the response has been read to its
\* end, also when the body is no JSON or json() stops before its end.
C21_BodyConsumedBeforeError ==
    (stage # "received" /\ outcome.kind \in {"RateLimited", "ResponseError"})
        => outcome.consumed

----
\* Properties of FromValue and ToValue (specification SpecValue), continued.

\* C22: extract_child_meta of an Array or a tuple has the key of the decimal
\* position of an element in the whole sequence (from 0, elements with an empty
\* tree counted) exactly when the meta tree of the element is not empty, and
\* of an Object the key of a value exactly when its tree is not empty; the key
\* maps to that tree, and no entry has an empty tree.
C22_ChildMetaKeys ==
    (vstage = "extracted" /\ vtype.kind \in {"Array", "Tuple", "Object"})
        => LET items == vresult.ann.value[1].items
               KeyOf(i) == IF vtype.kind = "Object" THEN items[i].key
                           ELSE DecimalStrings[i]
               TreeOf(i) == ExtractMetaTree(vtype.elem[1], items[i])
           IN /\ \A i \in 1..Len(items) :
                    IF TreeIsEmpty(TreeOf(i))
                    THEN \A e \in vchildren : e.key # KeyOf(i)
                    ELSE [key |-> KeyOf(i), tree |-> TreeOf(i)] \in vchildren
              /\ \A e \in vchildren :
                    /\ ~TreeIsEmpty(e.tree)
                    /\ \E i \in 1..Len(items) : e = [key |-> KeyOf(i), tree |-> TreeOf(i)]

C22_Witness ==
    /\ vstage = "extracted"
    /\ vtype = TTuple(2, TValue)
    /\ MetaIsEmpty(vresult.ann.value[1].items[1].meta)
    /\ vresult.ann.value[1].items[1].value = Some(VU64(1))
    /\ vresult.ann.value[1].items[2].value = Some(VArray(<<Annotated(Some(VU64(1)), OlderMeta)>>))
    /\ MetaIsEmpty(vresult.ann.value[1].items[2].meta)
    /\ vchildren =
        {[key |-> "1",
          tree |-> [meta |-> EmptyMeta,
                    children |-> {[key |-> "0",
                                   tree |-> [meta |-> OlderMeta, children |-> {}]]}]]}

\* C23: from_value for DateTime takes every U64, I64 and F64 as seconds since
\* the epoch: it returns, with a value and the meta unchanged, and a U64 never
\* becomes a time before the epoch.
C23_NumericTimestamps ==
    (/\ Converted
     /\ vtype = TDateTime
     /\ vinput.value # None
     /\ InputValue.tag \in {"U64", "I64", "F64"})
        => /\ ~vresult.panic
           /\ vresult.ann.value # None
           /\ vresult.ann.meta = vinput.meta
           /\ InputValue.tag = "U64" => vresult.ann.value[1].n >= 0

----
\* Properties of the actor (specification Spec), continued.

\* C24: no SendQuery fails with NoCredentials; sent to an actor without
\* credentials it fails with NotAuthenticated.
C24_NeverNoCredentials ==
    \A i \in 1..Len(calls) :
        calls[i].kind = "query"
            => /\ calls[i].result.kind # "NoCredentials"
               /\ ~config.credentials
                    => /\ calls[i].done
                       /\ calls[i].result.kind = "NotAuthenticated"
                       /\ ~calls[i].sent

C24_Witness ==
    /\ ~config.credentials
    /\ config.relay_mode = "Managed"
    /\ nattempts = 0
    /\ mailbox = 0
    /\ \E i \in 1..Len(calls) :
        /\ calls[i].kind = "query"
        /\ calls[i].result.kind = "NotAuthenticated"

\* C25: the SendQuery and SendRequest handlers, and the futures they return,
\* leave auth_state and backoff alone whatever the outcome; once auth_state is
\* Registered it stays Registered and no Authenticate is delivered, scheduled
\* or in flight again.
C25_CallsLeaveAuthAlone ==
    /\ [][/\ calls' # calls
                => /\ auth_state' = auth_state
                   /\ backoff' = backoff
                   /\ mailbox' = mailbox
                   /\ timers' = timers
                   /\ inflight' = inflight
          /\ auth_state = "Registered"
                => /\ auth_state' = "Registered"
                   /\ nattempts' = nattempts
                   /\ backoffCalls' = backoffCalls]_vars
    /\ [](auth_state = "Registered"
            => mailbox = 0 /\ timers = <<>> /\ inflight = <<>>)

C25_Witness ==
    /\ auth_state = "Registered"
    /\ \E i \in 1..Len(calls) :
        /\ calls[i].kind = "query"
        /\ calls[i].authAt = "Registered"
        /\ calls[i].done
        /\ calls[i].result.kind = "ResponseError"
        /\ calls[i].result.status = 403

\* The last handshake attempt that failed ended with a ResponseError of a
\* client-error status, for which no retry is scheduled.
StoppedByClientError ==
    nfailed > 0 /\ lastErr.kind = "ResponseError" /\ IsClientError(lastErr.status)

\* C26: after a handshake attempt has ended with a client-error ResponseError,
\* auth_state is Error for ever: no Authenticate is delivered, scheduled or in
\* flight, no attempt begins, no handshake request is sent and every SendQuery
\* fails with NotAuthenticated.
C26_ErrorForever ==
    /\ [](StoppedByClientError
            => /\ auth_state = "Error"
               /\ mailbox = 0
               /\ timers = <<>>
               /\ inflight = <<>>)
    /\ [][StoppedByClientError
            => /\ auth_state' = "Error"
               /\ nattempts' = nattempts
               /\ wire' = wire
               /\ lastErr' = lastErr
               /\ (Len(calls') > Len(calls) /\ calls'[Len(calls')].kind = "query")
                    => /\ calls'[Len(calls')].done
                       /\ calls'[Len(calls')].result.kind = "NotAuthenticated"]_vars

C26_Witness ==
    /\ StoppedByClientError
    /\ nfailed = 2
    /\ \E i \in 1..Len(calls) :
        /\ calls[i].kind = "query"
        /\ calls[i].authAt = "Error"
        /\ calls[i].result.kind = "NotAuthenticated"

\* C28: the intervals of the Authenticate retries one actor schedules never
\* decrease: the backoff changes only when a failed attempt is retried, which
\* takes exactly one next_backoff() and schedules the retry after that interval,
\* whichever leg failed, and the interval next_backoff() would return never
\* gets smaller.
C28_RetryIntervalsNonDecreasing ==
    /\ [][/\ NextBackoff(backoff').interval >= NextBackoff(backoff).interval
          /\ backoff' # backoff => (AttemptFails /\ ShouldRetry(lastErr'))
          /\ AttemptFails
                => IF ShouldRetry(lastErr')
                   THEN /\ backoffCalls' = backoffCalls + 1
                        /\ timers' = Append(timers, NextBackoff(backoff).interval)
                        /\ backoff' = NextBackoff(backoff).state
                   ELSE /\ backoffCalls' = backoffCalls
                        /\ timers' = timers
                        /\ backoff' = backoff
          /\ ~AttemptFails
                => /\ backoffCalls' = backoffCalls
                   /\ Len(timers') <= Len(timers)]_vars
    /\ [](\A i \in 1..Len(timers) : timers[i] <= NextBackoff(backoff).interval)

C28_Witness ==
    /\ nfailed = 2
    /\ backoffCalls = 2
    /\ decoded
    /\ wire = <<QueryPath(1), QueryPath(2)>>
    /\ auth_state = "Error"
    /\ timers = <<2 * InitialDelay>>

----
\* Properties of the handshake over the whole lifetime (specification SpecLive).

\* An upstream that, asked again and again, eventually takes both legs of one
\* attempt and answers them successfully.
UpstreamEventuallyAnswers ==
    /\ SF_vars(FirstLegSent)
    /\ SF_vars(SecondLegSent)
    /\ SF_vars(RegistrationSucceeded)

\* C27: in managed mode with credentials, when every scheduled retry fires,
\* no leg is ever answered with a client-error status other than 429 and the
\* upstream eventually answers both legs of an attempt successfully,
\* auth_state eventually is Registered.
C27_EventuallyRegistered ==
    (/\ config.relay_mode = "Managed"
     /\ config.credentials
     /\ []~StoppedByClientError
     /\ UpstreamEventuallyAnswers)
        => <>(auth_state = "Registered")

C27_Witness ==
    /\ config.relay_mode = "Managed"
    /\ config.credentials
    /\ auth_state = "Registered"
    /\ nfailed = MaxAttempts
    /\ lastErr.kind = "RateLimited"
    /\ backoff.current = backoff.max
    /\ ~StoppedByClientError

====
